---------------------------- MODULE Spec2Model ----------------------------
(***************************************************************************)
(* The typed allocation macros of "C Code/withCubicReg/myalloc.h":         *)
(* MALLOC, CALLOC, REALLOC and FREE, in both builds (MALLOCDEBUG defined   *)
(* or not), acting on one handle `name` over the platform allocator's      *)
(* heap.  Each macro expansion is one action.  The byte size is computed   *)
(* in the platform size type (modulo SizeMod), the count keeps its         *)
(* mathematical value for the `(len)>0` test.                              *)
(***************************************************************************)
EXTENDS Integers, Sequences, FiniteSets

\* ---- bounds of the model ------------------------------------------------
\* width in bits of the platform size type (scaled down)
SizeBits == 5
\* largest ordinary element count a caller passes
MaxLen == 2
\* largest request, in bytes, the platform allocator can satisfy
HeapLimit == 8
\* element values are 0..MaxVal
MaxVal == 1
\* number of regions the platform allocator can hand out in one run
MaxRegions == 2

\* ---- program constants --------------------------------------------------
MY_MALLOC_THRESH == 1

NULL == 0

\* sizeof(type) of the element types the macros are used with (int, double)
TypeSizes == {4, 8}

SizeMod == 2 ^ SizeBits

Values == 0 .. MaxVal

\* counts a caller can pass as `len`: ordinary ones, a negative one, and two
\* whose byte size does not fit in the size type
Lens == (-1 .. MaxLen) \cup {SizeMod \div 4, SizeMod \div 4 + 1}

Regions == 1 .. MaxRegions

VARIABLES
    debug,   \* TRUE iff the build defines MALLOCDEBUG
    tsize,   \* sizeof(type) of the handle's element type
    name,    \* the handle: NULL or the region it points to
    heap,    \* the platform heap: per region its state, contents, hand-backs
    pc,      \* "running", or "exited" after exit()
    status,  \* the exit status once pc = "exited"
    last,    \* the last macro expanded: op, len, handle before, allocator result
    log,     \* what the last macro did, in order
    scen     \* progress of the run MALLOC(2); REALLOC(0); FREE on an empty handle

vars == <<debug, tsize, name, heap, pc, status, last, log, scen>>

\* ---- size arithmetic ----------------------------------------------------
\* conversion of an integer to the size type
ToSize(n) == n % SizeMod

\* (len) * sizeof(type), computed in the size type
ByteSize(len) == (ToSize(len) * tsize) % SizeMod

\* the tracing test  (len)*sizeof(type) >= MY_MALLOC_THRESH
Traced(len) == ByteSize(len) >= MY_MALLOC_THRESH

\* the failure test written  (len)>1 : a count of one is let through
FailedAboveOne(p, len) == p = NULL /\ len > 1

\* the failure test written  (len)>=0 : a count of zero is fatal too
FailedFromZero(p, len) == p = NULL /\ len >= 0

\* the failure test  ... == NULL && (len)>0
Failed(p, len) == p = NULL /\ len > 0

\* the argument of exit() in each macro and build
ExitStatus(op) == IF debug /\ op = "REALLOC" THEN 11 ELSE 1

\* ---- the platform allocator ---------------------------------------------
\* all contents a region of k elements can have
Fills(k) == [1 .. k -> Values]

\* the next region the allocator can hand out (none when exhausted)
Fresh(h) == {i \in Regions : h[i].st = "unused" /\ \A j \in 1 .. (i - 1) : h[j].st # "unused"}

Live(d) == [st |-> "live", data |-> d, rel |-> 0]

\* region p handed back to the allocator
Released(h, p) == [h EXCEPT ![p] = [st |-> "freed", data |-> <<>>, rel |-> @.rel + 1]]

\* malloc(size): no region, or a fresh region of indeterminate contents
Malloc(h, size) ==
    {[ptr |-> NULL, heap |-> h]}
    \cup (IF size <= HeapLimit
          THEN {[ptr |-> x[1], heap |-> [h EXCEPT ![x[1]] = Live(x[2])]] :
                    x \in Fresh(h) \X Fills(size \div tsize)}
          ELSE {})

\* calloc(nmemb, size): no region when nmemb * size does not fit; otherwise a
\* fresh region of all-bits-zero elements, which read as some value z of the
\* element type (0 on the usual targets)
Calloc(h, nmemb, size) ==
    {[ptr |-> NULL, heap |-> h]}
    \cup (IF nmemb * size < SizeMod /\ nmemb * size <= HeapLimit
          THEN {[ptr |-> x[1], heap |-> [h EXCEPT ![x[1]] = Live([j \in 1 .. nmemb |-> x[2]])]] :
                    x \in Fresh(h) \X Values}
          ELSE {})

\* contents of k elements that keep the first min(k, Len(old)) elements of old
Kept(old, k) == {d \in Fills(k) : \A j \in 1 .. k : j <= Len(old) => d[j] = old[j]}

\* realloc(p, size)
Realloc(h, p, size) ==
    IF p = NULL THEN Malloc(h, size)
    ELSE IF size = 0
    THEN {[ptr |-> NULL, heap |-> Released(h, p)],
          [ptr |-> NULL, heap |-> h],
          [ptr |-> p, heap |-> [h EXCEPT ![p].data = <<>>]]}
         \cup {[ptr |-> i, heap |-> [Released(h, p) EXCEPT ![i] = Live(<<>>)]] : i \in Fresh(h)}
    ELSE {[ptr |-> NULL, heap |-> h]}
         \cup (IF size <= HeapLimit
               THEN {[ptr |-> p, heap |-> [h EXCEPT ![p].data = d]] :
                         d \in Kept(h[p].data, size \div tsize)}
                    \cup {[ptr |-> x[1], heap |-> [Released(h, p) EXCEPT ![x[1]] = Live(x[2])]] :
                              x \in Fresh(h) \X Kept(h[p].data, size \div tsize)}
               ELSE {})

\* ---- the macros ---------------------------------------------------------
\* the printf before the allocator call, in the MALLOCDEBUG build
TraceEvents(len) == IF debug /\ Traced(len) THEN <<"trace">> ELSE <<>>

\* the zeroing loop stopping one element early,  i<(len)-1
ZeroLoopShort(d, len) == [j \in 1 .. Len(d) |-> IF j <= len - 1 THEN 0 ELSE d[j]]

\* for (i=0; i<(len); i++) name[i] = 0;
ZeroLoop(d, len) == [j \in 1 .. Len(d) |-> IF j <= len THEN 0 ELSE d[j]]

\* how far a run has matched MALLOC(2); REALLOC(0); FREE on an empty handle
ScenNext(op, len) ==
    IF op = "MALLOC" /\ len = 2 /\ name = NULL THEN 1
    ELSE IF scen = 1 /\ op = "REALLOC" /\ len = 0 THEN 2
    ELSE IF scen = 2 /\ op = "FREE" THEN 3
    ELSE 0

\* the common tail of MALLOC, CALLOC and REALLOC: assign the allocator's
\* result r to the handle, then test for failure, print and exit
Assign(op, len, r, h) ==
    /\ name' = r.ptr
    /\ heap' = h
    /\ last' = [op |-> op, len |-> len, prev |-> name, ret |-> r.ptr]
    /\ scen' = ScenNext(op, len)
    /\ IF Failed(r.ptr, len)
       THEN /\ log' = TraceEvents(len) \o <<"call", "error">>
            /\ pc' = "exited"
            /\ status' = ExitStatus(op)
       ELSE /\ log' = TraceEvents(len) \o <<"call">>
            /\ UNCHANGED <<pc, status>>
    /\ UNCHANGED <<debug, tsize>>

MALLOC(len) ==
    /\ pc = "running"
    /\ \E r \in Malloc(heap, ByteSize(len)) : Assign("MALLOC", len, r, r.heap)

CALLOC(len) ==
    /\ pc = "running"
    /\ \E r \in Calloc(heap, ToSize(len), tsize) :
          Assign("CALLOC", len, r,
                 IF Failed(r.ptr, len) \/ r.ptr = NULL THEN r.heap
                 ELSE [r.heap EXCEPT ![r.ptr].data = ZeroLoop(@, len)])

REALLOC(len) ==
    /\ pc = "running"
    /\ \E r \in Realloc(heap, name, ByteSize(len)) : Assign("REALLOC", len, r, r.heap)

\* FREE without the  (name) != NULL  guard: free() is called on NULL too
FreeUnguarded ==
    /\ pc = "running"
    /\ log' = (IF debug THEN <<"trace">> ELSE <<>>) \o <<"free">>
    /\ heap' = IF name # NULL THEN Released(heap, name) ELSE heap
    /\ name' = NULL
    /\ last' = [op |-> "FREE", len |-> 0, prev |-> name, ret |-> NULL]
    /\ scen' = ScenNext("FREE", 0)
    /\ UNCHANGED <<debug, tsize, pc, status>>

\* FREE without the final  (name) = NULL : the handle keeps the freed pointer
FreeKeepsPointer ==
    /\ pc = "running"
    /\ log' = (IF debug THEN <<"trace">> ELSE <<>>) \o (IF name # NULL THEN <<"free">> ELSE <<>>)
    /\ heap' = IF name # NULL THEN Released(heap, name) ELSE heap
    /\ name' = name
    /\ last' = [op |-> "FREE", len |-> 0, prev |-> name, ret |-> NULL]
    /\ scen' = ScenNext("FREE", 0)
    /\ UNCHANGED <<debug, tsize, pc, status>>

FREE ==
    /\ pc = "running"
    /\ log' = (IF debug THEN <<"trace">> ELSE <<>>) \o (IF name # NULL THEN <<"free">> ELSE <<>>)
    /\ heap' = IF name # NULL THEN Released(heap, name) ELSE heap
    /\ name' = NULL
    /\ last' = [op |-> "FREE", len |-> 0, prev |-> name, ret |-> NULL]
    /\ scen' = ScenNext("FREE", 0)
    /\ UNCHANGED <<debug, tsize, pc, status>>

Init ==
    /\ debug \in BOOLEAN
    /\ tsize \in TypeSizes
    /\ name = NULL
    /\ heap = [i \in Regions |-> [st |-> "unused", data |-> <<>>, rel |-> 0]]
    /\ pc = "running"
    /\ status = 0
    /\ last = [op |-> "none", len |-> 0, prev |-> NULL, ret |-> NULL]
    /\ log = <<>>
    /\ scen = 0

Next ==
    \/ \E len \in Lens : MALLOC(len)
    \/ \E len \in Lens : CALLOC(len)
    \/ \E len \in Lens : REALLOC(len)
    \/ FREE

Spec == Init /\ [][Next]_vars

\* ---- the claims ---------------------------------------------------------
AllocOps == {"MALLOC", "CALLOC", "REALLOC"}

\* the elements the handle owns: none when it is empty
Owned == IF name = NULL THEN <<>> ELSE heap[name].data

Count(e) == Cardinality({k \in 1 .. Len(log) : log[k] = e})

Min(a, b) == IF a < b THEN a ELSE b

\* C1: in both builds, a MALLOC, CALLOC or REALLOC with len > 0 whose
\* allocator returns no region ends in exit(); when such a call returns, the
\* handle is not NULL and points to a live region.
FailFast ==
    (last.op \in AllocOps /\ last.len > 0) =>
        /\ last.ret = NULL => pc = "exited"
        /\ pc = "running" => (name # NULL /\ heap[name].st = "live")

FailFastWitness ==
    /\ last.op \in AllocOps
    /\ last.len > 0
    /\ last.ret = NULL
    /\ pc = "exited"

FailFastReturns ==
    /\ last.op = "REALLOC"
    /\ last.len > 0
    /\ pc = "running"
    /\ name # NULL

\* C2: when CALLOC with len >= 0 returns, the handle owns len elements and
\* every one of them is 0, whatever the allocator's region held.
ZeroAllocated ==
    (last.op = "CALLOC" /\ last.len >= 0 /\ pc = "running") =>
        /\ Len(Owned) = last.len
        /\ \A j \in 1 .. last.len : Owned[j] = 0

ZeroAllocatedWitness ==
    /\ last.op = "CALLOC"
    /\ last.len = 2
    /\ pc = "running"
    /\ name # NULL
    /\ Len(Owned) = 2

\* C3: when REALLOC with len m >= 0 returns, the handle owns exactly m
\* elements and the first min(n, m) of them are the ones it held before the
\* call, n being the number it owned before.
ResizeKeeps ==
    [][(last'.op = "REALLOC" /\ last'.len >= 0 /\ pc' = "running") =>
           /\ Len(Owned') = last'.len
           /\ \A j \in 1 .. Min(Len(Owned), last'.len) : Owned'[j] = Owned[j]]_vars

\* C3 holds of every REALLOC whose byte size fits in the size type.
ResizeKeepsIfFits ==
    [][(last'.op = "REALLOC" /\ last'.len >= 0 /\ pc' = "running"
            /\ last'.len * tsize < SizeMod) =>
           /\ Len(Owned') = last'.len
           /\ \A j \in 1 .. Min(Len(Owned), last'.len) : Owned'[j] = Owned[j]]_vars

\* C4: after FREE the handle is NULL, whatever it was; FREE on a NULL handle
\* does not call free(), does not exit, prints no failure line and leaves the
\* heap and the handle as they were.
ReleaseIdempotent ==
    [][last'.op = "FREE" =>
           /\ name' = NULL
           /\ pc' = "running"
           /\ name = NULL =>
                  /\ heap' = heap
                  /\ status' = status
                  /\ \A k \in 1 .. Len(log') : log'[k] \notin {"free", "error", "call"}]_vars

ReleaseIdempotentWitness ==
    /\ last.op = "FREE"
    /\ last.prev = NULL
    /\ name = NULL
    /\ \E i \in Regions : heap[i].st = "freed"

\* C5: a failed REALLOC with len > 0 prints one error line and exits with
\* status 1, as a failed MALLOC does, in both builds.
ResizeFailsLikeAllocate ==
    (last.op \in {"MALLOC", "REALLOC"} /\ pc = "exited") =>
        /\ Count("error") = 1
        /\ status = 1

\* C6: in the MALLOCDEBUG build every MALLOC, CALLOC or REALLOC with a count
\* len >= 0 prints exactly one trace line, before the allocator is called, if
\* len * sizeof(type) >= MY_MALLOC_THRESH and none otherwise; every FREE
\* prints exactly one.
TraceDiscipline ==
    debug =>
        /\ (last.op \in AllocOps /\ last.len >= 0) =>
               /\ Count("trace") = (IF last.len * tsize >= MY_MALLOC_THRESH THEN 1 ELSE 0)
               /\ \A k \in 1 .. Len(log) : log[k] = "trace" => k = 1
        /\ last.op = "FREE" => Count("trace") = 1

\* C6 holds of every call whose len * sizeof(type) fits in the size type.
TraceDisciplineIfFits ==
    debug =>
        /\ (last.op \in AllocOps /\ last.len >= 0 /\ last.len * tsize < SizeMod) =>
               /\ Count("trace") = (IF last.len * tsize >= MY_MALLOC_THRESH THEN 1 ELSE 0)
               /\ \A k \in 1 .. Len(log) : log[k] = "trace" => k = 1
        /\ last.op = "FREE" => Count("trace") = 1

\* C7: a MALLOC, CALLOC or REALLOC with a count len >= 0 whose
\* len * sizeof(type) does not fit in the size type (the product in the size
\* type differs from the true product) exits instead of returning.
OverflowAborts ==
    (last.op \in AllocOps /\ last.len >= 0 /\ ByteSize(last.len) # last.len * tsize) =>
        pc = "exited"

\* C8: a MALLOC, CALLOC or REALLOC with len < 0 prints an error line and
\* exits instead of returning.
NegativeFatal ==
    (last.op \in AllocOps /\ last.len < 0) => (pc = "exited" /\ Count("error") = 1)

\* C9: a MALLOC, CALLOC or REALLOC with len = 0 returns, with the handle NULL
\* or pointing to a live region of no elements; and the run MALLOC(2);
\* REALLOC(0); FREE on an empty handle ends with the handle NULL and the
\* process running, whatever realloc did with the zero size.
ZeroNeverAborts ==
    /\ (last.op \in AllocOps /\ last.len = 0) =>
           /\ pc = "running"
           /\ name = NULL \/ (heap[name].st = "live" /\ heap[name].data = <<>>)
    /\ scen = 3 => (name = NULL /\ pc = "running")

ZeroNeverAbortsWitness ==
    /\ scen = 3
    /\ last.op = "FREE"
    /\ last.prev # NULL

ZeroResizeToNull ==
    /\ scen = 2
    /\ name = NULL
    /\ pc = "running"

\* C10: in a run that has not exited, no region has been handed back to the
\* allocator more than once, and the handle is NULL or points to a region
\* that is live.
NoDoubleRelease ==
    pc = "running" =>
        /\ \A i \in Regions : heap[i].rel <= 1
        /\ name # NULL => heap[name].st = "live"

NoDoubleReleaseWitness ==
    /\ pc = "running"
    /\ last.op = "FREE"
    /\ last.prev # NULL
    /\ \A i \in Regions : heap[i].st = "freed" /\ heap[i].rel = 1

=============================================================================
